---- MODULE Spec2Model ----
(***************************************************************************)
(* asyncgrpc/protocol.py: the asynchronous layer between an asyncio        *)
(* transport and the h2 protocol engine.                                   *)
(*                                                                         *)
(* Three subsystems are modelled, each with its own specification:         *)
(*   SpecRecv  the inbound side of one stream: Buffer, _slice and          *)
(*             Stream.recv_data, fed by DataReceived / StreamEnded events; *)
(*   SpecSend  the outbound side of a connection: Stream.send_headers and  *)
(*             Stream.send_data of several streams, the write_ready gate   *)
(*             and the flow-control windows of the engine;                 *)
(*   SpecConn  the connection: H2Protocol's transport callbacks, the       *)
(*             EventsProcessor's dispatch of the engine's events, the      *)
(*             stream map, the header queues and Stream.recv_headers.      *)
(* A task runs without interruption between two awaits (asyncio is         *)
(* cooperative), so one action is the code from one suspension point to    *)
(* the next.                                                               *)
(***************************************************************************)
EXTENDS Integers, Sequences, FiniteSets, TLC

(* ------------------------------ bounds -------------------------------- *)
\* total number of bytes the peer sends on the inbound stream
MaxBytes == 4
\* largest DATA frame payload delivered in one DataReceived event
MaxChunk == 3
\* largest size argument of recv_data(size)
MaxRead == 3
\* longest payload given to send_data
MaxData == 2
\* the flow-control windows of the engine range over 0..MaxWin; an increment
\* that would pass MaxWin saturates there
MaxWin == 2

\* stream ids range over 1..MaxId
MaxId == 2
\* most events one receive_data call returns
MaxBatch == 2
\* most Stream objects create_stream constructs on the connection
MaxCreate == 2

\* the locally initiated streams that send on the connection
Streams == {1, 3}

(* ------------------------------ state --------------------------------- *)
VARIABLES
  \* Buffer (the stream's __buffer__)
  _chunks,          \* Buffer._chunks: sequence of byte strings
  _length,          \* Buffer._length
  _complete_size,   \* Buffer._complete_size
  _complete_event,  \* Buffer._complete_event (asyncio.Event flag)
  \* the task calling Stream.recv_data
  rpc,              \* "idle" | "wait_all" (line 50) | "wait_sized" (line 60)
  rwoken,           \* the Event.wait() future of the suspended task is resolved
  rsize,            \* the size argument of the current / most recent call
  \* what the caller and the engine observed
  rop,              \* the most recent recv_data call: "none" | "all" | "sized"
  rstat,            \* its outcome: "none" | "pending" | "returned" | "raised"
  ret,              \* the bytes the most recent completed call returned
  acked,            \* arguments of the last acknowledge_received_data call
  \* history of the inbound stream
  nApp,             \* bytes appended so far; the i-th byte received is i
  eofCalled,        \* Buffer.eof() has been called
  eofAtCall,        \* eof() had been called when the current call started
  sizedBefore,      \* a sized read (size > 0) ran on this buffer before
  delivered,        \* bytes returned by the reads completed before the last
  \* Connection
  write_ready,      \* Connection.write_ready (asyncio.Event flag)
  \* the engine's outbound flow control (H2Connection)
  connWin,          \* outbound window of the connection
  strWin,           \* outbound window of each stream
  \* Stream, and the task calling send_headers / send_data on it
  window_updated,   \* Stream.__window_updated__ (asyncio.Event flag)
  spc,              \* "idle" | "hdr_wait" (120) | "top" (130) |
                    \* "ready_wait" (131) | "window_wait" (136) | "done"
  swoken,           \* the Event.wait() future of the suspended task is resolved
  f_pos,            \* send_data: f_pos
  f_last,           \* send_data: f_last = len(data); data is bytes 1..f_last
  end_stream,       \* the end_stream argument of the current call
  cur,              \* the stream whose task is running between awaits, or 0
  \* what the engine observed
  sop,              \* the most recent call: "none" | "send_headers" | "send_data"
  out,              \* concatenation of the chunks given to h2 send_data
  ends,             \* number of those send_data calls with end_stream=True
  \* H2Protocol / EventsProcessor
  made,             \* connection_made has run: conn and processor exist
  lost,             \* connection_lost has run
  handler,          \* the handler given to H2Protocol: "NoHandler", or
                    \* "Accepting" (a subclass whose accept returns)
  client_side,      \* config.client_side
  registered,       \* the ids under which Stream objects were stored in
                    \* processor.streams, in order of registration
  headers,          \* Stream.__headers__ of the Stream stored under each id
  hpc,              \* the task calling recv_headers: "idle" | "wait" (111)
  got,              \* the header blocks its recv_headers calls returned
  arrived,          \* the header blocks put into the stream's queue
  \* what the handler and the transport observed
  cancelled,        \* the ids handler.cancel was invoked for
  transport_closed, \* number of transport.close() calls
  handler_closed,   \* number of handler.close() calls
  terminated,       \* a ConnectionTerminated event has been dispatched
  after_term,       \* an event was processed after that dispatch
  errored,          \* feed raised ProtocolError
  after_error,      \* an event was processed after that
  \* the step just taken, if it was data_received (else empty)
  events,           \* the events feed returned
  log,              \* the routine calls process made, in order
  raised,           \* the exception that left data_received
  \* the engine (H2Connection)
  estate,           \* each stream: "idle" | "open" | "closed"
  hcount,           \* header blocks received on each stream
  highest_outbound, \* highest_outbound_stream_id
  highest_inbound,  \* highest_inbound_stream_id
  eclosed,          \* the connection state machine is CLOSED
  data_to_send,     \* the engine holds output bytes not yet given to the
                    \* transport (H2Connection.data_to_send() is not empty)
  submitted         \* the frame the step just taken submitted to the engine
                    \* (kind "none" if it submitted nothing): its kind and
                    \* length, and at the moment of submission the engine's
                    \* window for the stream, the bytes the call had left to
                    \* send and the write_ready flag

recvVars == <<_chunks, _length, _complete_size, _complete_event, rpc, rwoken,
              rsize, rop, rstat, ret, acked, nApp, eofCalled, eofAtCall,
              sizedBefore, delivered>>

sendVars == <<write_ready, connWin, strWin, window_updated, spc, swoken, f_pos,
              f_last, end_stream, cur, sop, out, ends, submitted>>

connVars == <<made, lost, handler, client_side, registered, headers, hpc, got,
              arrived, cancelled, transport_closed, handler_closed,
              terminated, after_term, errored, after_error, events, log,
              raised, estate, hcount, highest_outbound, highest_inbound,
              eclosed>>

vars == <<recvVars, sendVars, connVars, data_to_send>>

(* ----------------------------- helpers -------------------------------- *)
Min(a, b) == IF a <= b THEN a ELSE b

\* b''.join(chunks)
RECURSIVE Join(_)
Join(chunks) ==
  IF chunks = <<>> THEN <<>> ELSE Head(chunks) \o Join(Tail(chunks))

\* the bytes numbered a+1 .. b, in order
Bytes(a, b) == [i \in 1..(b - a) |-> a + i]

Range(s) == {s[i] : i \in DOMAIN s}

\* the id of the inbound stream
RecvStreamId == 1

(* ------------------------------ _slice -------------------------------- *)
\* the for loop of _slice; first_size is initialised and never assigned again
RECURSIVE _slice_loop(_, _, _, _, _)
_slice_loop(chunks, size, first, first_size, second) ==
  IF chunks = <<>> THEN <<first, second>>
  ELSE LET chunk == Head(chunks) IN
    IF first_size < size
    THEN IF first_size + Len(chunk) <= size
         THEN _slice_loop(Tail(chunks), size, Append(first, chunk),
                          first_size, second)
         ELSE LET slice_size == size - first_size IN
              _slice_loop(Tail(chunks), size,
                          Append(first, SubSeq(chunk, 1, slice_size)),
                          first_size,
                          Append(second,
                                 SubSeq(chunk, slice_size + 1, Len(chunk))))
    ELSE _slice_loop(Tail(chunks), size, first, first_size,
                     Append(second, chunk))

_slice(chunks, size) == _slice_loop(chunks, size, <<>>, 0, <<>>)

(* ------------------------------ Init ---------------------------------- *)
InitRecv ==
  /\ _chunks = <<>>
  /\ _length = 0
  /\ _complete_size = -1
  /\ _complete_event = FALSE
  /\ rpc = "idle"
  /\ rwoken = FALSE
  /\ rsize = 0
  /\ rop = "none"
  /\ rstat = "none"
  /\ ret = <<>>
  /\ acked = [n |-> 0, stream_id |-> 0]
  /\ nApp = 0
  /\ eofCalled = FALSE
  /\ eofAtCall = FALSE
  /\ sizedBefore = FALSE
  /\ delivered = {}

NoFrame == [kind |-> "none", n |-> 0, window |-> 0, remaining |-> 0,
            ready |-> TRUE]

\* the streams in `active` have not sent yet; the others have finished sending
InitSendWith(active) ==
  /\ write_ready = TRUE
  /\ connWin \in 0..MaxWin
  /\ strWin \in [Streams -> 0..MaxWin]
  /\ window_updated = [s \in Streams |-> FALSE]
  /\ spc = [s \in Streams |-> IF s \in active THEN "idle" ELSE "done"]
  /\ swoken = [s \in Streams |-> FALSE]
  /\ f_pos = [s \in Streams |-> 0]
  /\ f_last = [s \in Streams |-> 0]
  /\ end_stream = [s \in Streams |-> FALSE]
  /\ cur = 0
  /\ sop = [s \in Streams |-> "none"]
  /\ out = [s \in Streams |-> <<>>]
  /\ ends = [s \in Streams |-> 0]
  /\ submitted = NoFrame
  /\ data_to_send = FALSE

InitSend == InitSendWith(Streams)

Ids == 1..MaxId

NoExc == [exc |-> "none", at |-> 0]

\* H2Protocol.__init__: handler and config are the caller's
InitConn ==
  /\ made = FALSE
  /\ lost = FALSE
  /\ handler \in {"NoHandler", "Accepting"}
  /\ client_side \in BOOLEAN
  /\ registered = <<>>
  /\ headers = [i \in Ids |-> <<>>]
  /\ hpc = [i \in Ids |-> "idle"]
  /\ got = [i \in Ids |-> <<>>]
  /\ arrived = [i \in Ids |-> <<>>]
  /\ cancelled = {}
  /\ transport_closed = 0
  /\ handler_closed = 0
  /\ terminated = FALSE
  /\ after_term = FALSE
  /\ errored = FALSE
  /\ after_error = FALSE
  /\ events = <<>>
  /\ log = <<>>
  /\ raised = NoExc
  /\ estate = [i \in Ids |-> "idle"]
  /\ hcount = [i \in Ids |-> 0]
  /\ highest_outbound = 0
  /\ highest_inbound = 0
  /\ eclosed = FALSE

\* a client connection that is made, with the streams of Streams created and
\* their request headers sent
InitEstablished ==
  /\ made = TRUE
  /\ lost = FALSE
  /\ handler = "NoHandler"
  /\ client_side = TRUE
  /\ registered = <<1, 3>>
  /\ headers = [i \in Ids \cup Streams |-> <<>>]
  /\ hpc = [i \in Ids \cup Streams |-> "idle"]
  /\ got = [i \in Ids \cup Streams |-> <<>>]
  /\ arrived = [i \in Ids \cup Streams |-> <<>>]
  /\ cancelled = {}
  /\ transport_closed = 0
  /\ handler_closed = 0
  /\ terminated = FALSE
  /\ after_term = FALSE
  /\ errored = FALSE
  /\ after_error = FALSE
  /\ events = <<>>
  /\ log = <<>>
  /\ raised = NoExc
  /\ estate = [i \in Ids \cup Streams |-> IF i \in Streams THEN "open" ELSE "idle"]
  /\ hcount = [i \in Ids \cup Streams |-> 0]
  /\ highest_outbound = 3
  /\ highest_inbound = 0
  /\ eclosed = FALSE

Init == InitRecv /\ InitSend /\ InitEstablished

\* one stream sends, the other has finished
InitOneSender == InitRecv /\ InitSendWith({1}) /\ InitEstablished

\* a connection not yet made; the windows are the engine's initial ones
InitOfConn ==
  /\ InitRecv
  /\ InitSend
  /\ connWin = MaxWin
  /\ strWin = [s \in Streams |-> MaxWin]
  /\ InitConn

(* ------------------------------ Buffer -------------------------------- *)
\* asyncio.Event.set() on _complete_event: the flag is set and the future of a
\* task suspended in wait() is resolved (the task resumes at its next step)
SetCompleteEvent ==
  /\ _complete_event' = TRUE
  /\ rwoken' = (rwoken \/ rpc \in {"wait_all", "wait_sized"})

\* Buffer.append: whether the pending threshold is set and now satisfied
ThresholdReached(complete_size, length) ==
  complete_size # -1 /\ length >= complete_size

\* Buffer.read, size is None: what is returned after the wait
ReadAllFirstChunk(chunks) == IF chunks = <<>> THEN <<>> ELSE Head(chunks)
ReadAllResult(chunks) == Join(chunks)

\* Buffer.read, size > 0: whether the read has to wait
MustWait(size, length) == size > length

\* Stream.recv_data: the byte count given to acknowledge_received_data
AckRequested(data, size) == size
AckSize(data, size) == Len(data)

(* --------------------- events of the inbound stream -------------------- *)
\* Connection.flush (line 91): data_to_send() drains the engine's output and
\* transport.write takes it
flush == data_to_send' = FALSE

\* data_received with a DataReceived event: EventsProcessor.
\* process_data_received -> Buffer.append(event.data), then conn.flush()
process_data_received(n) ==
  /\ UNCHANGED <<sendVars, connVars>>
  /\ flush
  /\ ~eofCalled
  /\ nApp + n <= MaxBytes
  /\ _chunks' = Append(_chunks, Bytes(nApp, nApp + n))
  /\ _length' = _length + n
  /\ nApp' = nApp + n
  /\ IF ThresholdReached(_complete_size, _length + n)
     THEN SetCompleteEvent
     ELSE UNCHANGED <<_complete_event, rwoken>>
  /\ UNCHANGED <<_complete_size, rpc, rsize, rop, rstat, ret, acked,
                 eofCalled, eofAtCall, sizedBefore, delivered>>

\* data_received with a StreamEnded event: EventsProcessor.
\* process_stream_ended -> Buffer.eof(), then conn.flush()
process_stream_ended ==
  /\ UNCHANGED <<sendVars, connVars>>
  /\ flush
  /\ ~eofCalled
  /\ eofCalled' = TRUE
  /\ SetCompleteEvent
  /\ UNCHANGED <<_chunks, _length, _complete_size, rpc, rsize, rop, rstat,
                 ret, acked, nApp, eofAtCall, sizedBefore, delivered>>

(* --------------------------- Stream.recv_data -------------------------- *)
\* recv_data lines 115-116: acknowledge_received_data(len(data), self.id),
\* then return data.  Acknowledging bytes lets the engine queue WINDOW_UPDATE
\* frames when its window manager decides to (q); recv_data writes nothing to
\* the transport.
Return(data) ==
  /\ ret' = data
  /\ rstat' = "returned"
  /\ acked' = [n |-> AckSize(data, rsize'), stream_id |-> RecvStreamId]
  /\ \E q \in BOOLEAN :
       data_to_send' = (data_to_send \/ (q /\ AckSize(data, rsize') > 0))
  /\ rpc' = "idle"
  /\ rwoken' = FALSE

\* Buffer.read lines 61-62, after the wait of a sized read
AfterSizedWait ==
  /\ _complete_size' = -1
  /\ _complete_event' = FALSE

\* Buffer.read lines 63-64: data, self._chunks = _slice(self._chunks, size)
SliceAndReturn(size) ==
  /\ _chunks' = _slice(_chunks, size)[2]
  /\ Return(Join(_slice(_chunks, size)[1]))

\* a call starts: the previous result becomes history
StartCall(op, size) ==
  /\ rpc = "idle"
  /\ rop' = op
  /\ rsize' = size
  /\ eofAtCall' = eofCalled
  /\ delivered' = delivered \cup (IF rstat = "returned" THEN Range(ret) ELSE {})

\* recv_data() with size None
recv_data_all ==
  /\ UNCHANGED <<sendVars, connVars>>
  /\ StartCall("all", 0)
  /\ IF _complete_event
     THEN /\ Return(ReadAllResult(_chunks))
          /\ UNCHANGED <<_chunks, _complete_event>>
     ELSE /\ rpc' = "wait_all"
          /\ rstat' = "pending"
          /\ UNCHANGED <<_chunks, _complete_event, rwoken, ret, acked,
                         data_to_send>>
  /\ UNCHANGED <<_length, _complete_size, nApp, eofCalled, sizedBefore>>

\* recv_data(size) with an integer size
recv_data_sized(size) ==
  /\ UNCHANGED <<sendVars, connVars>>
  /\ StartCall("sized", size)
  /\ sizedBefore' = (sizedBefore \/ size > 0)
  /\ IF size < 0
     THEN \* ValueError('Size is negative') propagates; nothing is acknowledged
          /\ rstat' = "raised"
          /\ UNCHANGED <<_chunks, _complete_size, _complete_event, rpc,
                         rwoken, ret, acked, data_to_send>>
     ELSE IF size = 0
     THEN /\ Return(<<>>)
          /\ UNCHANGED <<_chunks, _complete_size, _complete_event>>
     ELSE IF MustWait(size, _length)
     THEN IF _complete_event
          THEN \* wait() returns at once on a set event
               /\ AfterSizedWait
               /\ SliceAndReturn(size)
          ELSE /\ _complete_size' = size
               /\ rpc' = "wait_sized"
               /\ rstat' = "pending"
               /\ UNCHANGED <<_chunks, _complete_event, rwoken, ret, acked,
                              data_to_send>>
     ELSE /\ SliceAndReturn(size)
          /\ UNCHANGED <<_complete_size, _complete_event>>
  /\ UNCHANGED <<_length, nApp, eofCalled>>

\* the suspended recv_data resumes after _complete_event.wait()
recv_data_resume ==
  /\ UNCHANGED <<sendVars, connVars>>
  /\ rpc \in {"wait_all", "wait_sized"}
  /\ rwoken
  /\ IF rpc = "wait_all"
     THEN /\ Return(ReadAllResult(_chunks))
          /\ UNCHANGED <<_chunks, _complete_size, _complete_event>>
     ELSE /\ AfterSizedWait
          /\ SliceAndReturn(rsize)
  /\ UNCHANGED <<_length, rsize, rop, nApp, eofCalled, eofAtCall,
                 sizedBefore, delivered>>

NextRecv ==
  \/ \E n \in 1..MaxChunk : process_data_received(n)
  \/ process_stream_ended
  \/ recv_data_all
  \/ \E size \in -1..MaxRead : recv_data_sized(size)
  \/ recv_data_resume

\* the inbound side alone; the outbound side stays in one initial state
InitOfRecv ==
  /\ Init
  /\ connWin = MaxWin
  /\ strWin = [s \in Streams |-> MaxWin]

SpecRecv == InitOfRecv /\ [][NextRecv]_vars

(* ====================== the outbound side ============================== *)
\* h2 local_flow_control_window(stream_id): the smaller of the connection's
\* and the stream's outbound window
LocalWindow(s) == Min(connWin, strWin[s])

\* send_data line 134: `if not window`
NotWindow(window) == window = 0

\* send_data line 139: the size given to f.read
ChunkAll(window, remaining) == remaining
ChunkSize(window, remaining) == Min(window, remaining)

\* BytesIO.read(n) at position pos: up to n bytes, everything left if n < 0
BytesIORead(data, pos, n) ==
  IF n < 0 THEN SubSeq(data, pos + 1, Len(data))
  ELSE SubSeq(data, pos + 1, Min(Len(data), pos + n))

\* send_data lines 142-148: the end_stream flag given to h2 send_data
EndStreamAlways(final, es) == es
EndStreamArg(final, es) == final /\ es

\* process_window_updated line 219: the event signals a stream
WakesConnectionOnly(stream_id) == stream_id = 0
WakesStream(stream_id) == stream_id > 0

\* transport.write(data): the transport may call pause_writing() from inside
\* write() when its buffer passes the high-water mark (p)
TransportWrite(p) == write_ready' = (write_ready /\ ~p)

\* asyncio.Event.set() on write_ready: resolves the futures of all waiters
WakeReadyWaiters ==
  swoken' = [s \in Streams |->
               swoken[s] \/ spc[s] \in {"hdr_wait", "ready_wait"}]

(* ------------------------- Connection callbacks ------------------------ *)
\* H2Protocol.pause_writing -> Connection.pause_writing
pause_writing ==
  /\ cur = 0
  /\ write_ready' = FALSE
  /\ UNCHANGED <<connWin, strWin, window_updated, spc, swoken, f_pos, f_last,
                 end_stream, cur, sop, out, ends, data_to_send>>
  /\ submitted' = NoFrame
  /\ UNCHANGED <<recvVars, connVars>>

\* H2Protocol.resume_writing -> Connection.resume_writing
resume_writing ==
  /\ cur = 0
  /\ write_ready' = TRUE
  /\ WakeReadyWaiters
  /\ UNCHANGED <<connWin, strWin, window_updated, spc, f_pos, f_last,
                 end_stream, cur, sop, out, ends, data_to_send>>
  /\ submitted' = NoFrame
  /\ UNCHANGED <<recvVars, connVars>>

\* data_received with a WindowUpdated event: the engine has added the
\* increment to the window (receive_data), then process_window_updated runs,
\* then conn.flush()
process_window_updated(stream_id, delta) ==
  /\ cur = 0
  /\ flush
  /\ IF stream_id = 0
     THEN /\ connWin' = Min(MaxWin, connWin + delta)
          /\ UNCHANGED strWin
     ELSE /\ strWin' = [strWin EXCEPT ![stream_id] = Min(MaxWin, @ + delta)]
          /\ UNCHANGED connWin
  /\ IF WakesStream(stream_id) /\ stream_id \in Streams
     THEN window_updated' = [window_updated EXCEPT ![stream_id] = TRUE]
     ELSE UNCHANGED window_updated
  /\ UNCHANGED <<write_ready, spc, swoken, f_pos, f_last, end_stream, cur,
                 sop, out, ends>>
  /\ submitted' = NoFrame
  /\ UNCHANGED <<recvVars, connVars>>

(* --------------------------- Stream.send_headers ----------------------- *)
\* lines 122-123: h2 send_headers, then transport.write(data_to_send())
SubmitHeaders(s, es, p) ==
  /\ data_to_send' = FALSE
  /\ submitted' = [kind |-> "headers", n |-> 0, window |-> 0, remaining |-> 0,
              ready |-> write_ready]
  /\ TransportWrite(p)
  /\ spc' = [spc EXCEPT ![s] = IF es THEN "done" ELSE "idle"]

send_headers(s, es) ==
  /\ cur = 0
  /\ spc[s] = "idle"
  /\ sop[s] = "none"
  /\ sop' = [sop EXCEPT ![s] = "send_headers"]
  /\ end_stream' = [end_stream EXCEPT ![s] = es]
  /\ IF write_ready
     THEN \E p \in BOOLEAN : SubmitHeaders(s, es, p)
     ELSE /\ spc' = [spc EXCEPT ![s] = "hdr_wait"]
          /\ submitted' = NoFrame
          /\ UNCHANGED <<write_ready, data_to_send>>
  /\ UNCHANGED <<connWin, strWin, window_updated, swoken, f_pos, f_last, cur,
                 out, ends>>
  /\ UNCHANGED <<recvVars, connVars>>

\* send_headers resumes after write_ready.wait()
send_headers_resume(s) ==
  /\ cur = 0
  /\ spc[s] = "hdr_wait"
  /\ swoken[s]
  /\ \E p \in BOOLEAN : SubmitHeaders(s, end_stream[s], p)
  /\ swoken' = [swoken EXCEPT ![s] = FALSE]
  /\ UNCHANGED <<connWin, strWin, window_updated, f_pos, f_last, end_stream,
                 cur, sop, out, ends>>
  /\ UNCHANGED <<recvVars, connVars>>

(* ---------------------------- Stream.send_data ------------------------- *)
\* lines 139-149: read the chunk, h2 send_data, transport.write; break when
\* the data is exhausted, else back to the top of the loop (no await between)
Submit(s, window, p) ==
  LET data == Bytes(0, f_last[s])
      f_chunk == BytesIORead(data, f_pos[s],
                             ChunkSize(window, f_last[s] - f_pos[s]))
      pos == f_pos[s] + Len(f_chunk)
      final == pos = f_last[s]
      es == EndStreamArg(final, end_stream[s])
  IN /\ f_pos' = [f_pos EXCEPT ![s] = pos]
     /\ out' = [out EXCEPT ![s] = @ \o f_chunk]
     /\ ends' = [ends EXCEPT ![s] = @ + (IF es THEN 1 ELSE 0)]
     /\ submitted' = [kind |-> "data", n |-> Len(f_chunk),
                 window |-> LocalWindow(s),
                 remaining |-> f_last[s] - f_pos[s], ready |-> write_ready]
     /\ connWin' = connWin - Len(f_chunk)
     /\ strWin' = [strWin EXCEPT ![s] = @ - Len(f_chunk)]
     /\ data_to_send' = FALSE
     /\ TransportWrite(p)
     /\ spc' = [spc EXCEPT ![s] = IF final THEN "done" ELSE "top"]
     /\ cur' = IF final THEN 0 ELSE s

\* lines 133-149, entered with write_ready passed
FromQuery(s) ==
  IF NotWindow(LocalWindow(s))
  THEN \* clear(), then wait() on the cleared event suspends
       /\ window_updated' = [window_updated EXCEPT ![s] = FALSE]
       /\ spc' = [spc EXCEPT ![s] = "window_wait"]
       /\ cur' = 0
       /\ submitted' = NoFrame
       /\ UNCHANGED <<write_ready, connWin, strWin, f_pos, out, ends,
                      data_to_send>>
  ELSE /\ \E p \in BOOLEAN : Submit(s, LocalWindow(s), p)
       /\ UNCHANGED window_updated

\* the call: lines 126-127, then the loop is entered
send_data(s, len, es) ==
  /\ cur = 0
  /\ spc[s] = "idle"
  /\ sop' = [sop EXCEPT ![s] = "send_data"]
  /\ end_stream' = [end_stream EXCEPT ![s] = es]
  /\ f_last' = [f_last EXCEPT ![s] = len]
  /\ spc' = [spc EXCEPT ![s] = "top"]
  /\ cur' = s
  /\ UNCHANGED <<write_ready, connWin, strWin, window_updated, swoken, f_pos,
                 out, ends, data_to_send>>
  /\ submitted' = NoFrame
  /\ UNCHANGED <<recvVars, connVars>>

\* the top of the while loop, lines 130-131; the task is running
send_data_top(s) ==
  /\ cur = s
  /\ spc[s] = "top"
  /\ IF ~write_ready
     THEN /\ spc' = [spc EXCEPT ![s] = "ready_wait"]
          /\ cur' = 0
          /\ submitted' = NoFrame
          /\ UNCHANGED <<write_ready, connWin, strWin, window_updated, f_pos,
                         out, ends, data_to_send>>
     ELSE FromQuery(s)
  /\ UNCHANGED <<swoken, f_last, end_stream, sop>>
  /\ UNCHANGED <<recvVars, connVars>>

\* send_data resumes after write_ready.wait() (line 131) and goes on to 133
send_data_ready(s) ==
  /\ cur = 0
  /\ spc[s] = "ready_wait"
  /\ swoken[s]
  /\ FromQuery(s)
  /\ swoken' = [swoken EXCEPT ![s] = FALSE]
  /\ UNCHANGED <<f_last, end_stream, sop>>
  /\ UNCHANGED <<recvVars, connVars>>

\* send_data resumes after __window_updated__.wait() (line 136): the window
\* is queried again (line 137) and the chunk is sent.  The flag was cleared
\* when the wait began and only set() changes it since, so the waiter's
\* future is resolved exactly when the flag is set.
send_data_window(s) ==
  /\ cur = 0
  /\ spc[s] = "window_wait"
  /\ window_updated[s]
  /\ \E p \in BOOLEAN : Submit(s, LocalWindow(s), p)
  /\ UNCHANGED <<window_updated, swoken, f_last, end_stream, sop>>
  /\ UNCHANGED <<recvVars, connVars>>

NextSend ==
  \/ pause_writing
  \/ resume_writing
  \/ \E sid \in Streams \cup {0}, d \in 1..MaxWin :
        process_window_updated(sid, d)
  \/ \E s \in Streams, es \in BOOLEAN : send_headers(s, es)
  \/ \E s \in Streams : send_headers_resume(s)
  \/ \E s \in Streams, len \in 0..MaxData, es \in BOOLEAN :
        send_data(s, len, es)
  \/ \E s \in Streams : send_data_top(s)
  \/ \E s \in Streams : send_data_ready(s)
  \/ \E s \in Streams : send_data_window(s)

SpecSend == Init /\ [][NextSend]_vars

\* The event loop runs every task whose future is resolved; the transport
\* drains and calls resume_writing; the peer keeps sending WINDOW_UPDATE for
\* the connection and for each stream.
FairSend ==
  /\ \A s \in Streams : WF_vars(send_data_top(s))
  /\ \A s \in Streams : SF_vars(send_data_ready(s))
  /\ \A s \in Streams : SF_vars(send_data_window(s))
  /\ \A s \in Streams : SF_vars(send_headers_resume(s))
  /\ SF_vars(resume_writing)
  /\ \A sid \in Streams \cup {0} :
        SF_vars(\E d \in 1..MaxWin : process_window_updated(sid, d))

SpecSendFair == InitOneSender /\ [][NextSend]_vars /\ FairSend

\* As FairSend, but the peer is only bound to replenish the connection's
\* window (WindowUpdated with stream_id 0): it need not send a WINDOW_UPDATE
\* for a stream whose own window is not exhausted.
FairSendConn ==
  /\ \A s \in Streams : WF_vars(send_data_top(s))
  /\ \A s \in Streams : SF_vars(send_data_ready(s))
  /\ \A s \in Streams : SF_vars(send_data_window(s))
  /\ \A s \in Streams : SF_vars(send_headers_resume(s))
  /\ SF_vars(resume_writing)
  /\ SF_vars(\E d \in 1..MaxWin : process_window_updated(0, d))

SpecSendFairConn == InitOneSender /\ [][NextSend]_vars /\ FairSendConn

(* ========================= the connection ============================== *)
\* The engine is the collaborator H2Connection: it is modelled by the events
\* it can report, in the order its stream and connection state machines allow.

\* the ids this endpoint opens streams with: odd on a client, even on a server
IsLocal(id) == (id % 2 = 1) = client_side

\* h2 get_next_available_stream_id(): computed from the highest id a stream
\* has been opened with (send_headers), not from the ids already handed out
get_next_available_stream_id ==
  IF highest_outbound = 0 THEN (IF client_side THEN 1 ELSE 2)
  ELSE highest_outbound + 2

Event(kind, stream_id) == [kind |-> kind, stream_id |-> stream_id]

\* the part of the engine's state that decides which events it can report
EngineState ==
  [estate |-> estate, hcount |-> hcount, highest_inbound |-> highest_inbound,
   eclosed |-> eclosed]

\* the events receive_data can report next.  PingAcknowledged stands for the
\* event classes of h2.events that the processors table does not list.
ValidEvents(es) ==
  IF es.eclosed THEN {Event("ConnectionTerminated", 0)}
  ELSE
    {Event("RequestReceived", i) :
       i \in {j \in Ids : ~client_side /\ ~IsLocal(j)
                          /\ j > es.highest_inbound}}
    \cup {Event("ResponseReceived", i) :
       i \in {j \in Ids : client_side /\ IsLocal(j)
                          /\ es.estate[j] = "open" /\ es.hcount[j] = 0}}
    \cup {Event("TrailersReceived", i) :
       i \in {j \in Ids : es.estate[j] = "open" /\ es.hcount[j] = 1}}
    \cup {Event(k, i) :
       k \in {"DataReceived", "StreamEnded"},
       i \in {j \in Ids : es.estate[j] = "open" /\ es.hcount[j] = 1}}
    \cup {Event(k, i) :
       k \in {"WindowUpdated", "StreamReset"},
       i \in {j \in Ids : es.estate[j] = "open"}}
    \cup {Event(k, 0) :
       k \in {"WindowUpdated", "RemoteSettingsChanged",
              "SettingsAcknowledged", "ConnectionTerminated",
              "PingAcknowledged"}}
    \cup {Event("PriorityUpdated", 1)}

\* the engine's state after it has reported event e
EngineStep(es, e) ==
  CASE e.kind = "RequestReceived" ->
         [es EXCEPT !.estate[e.stream_id] = "open",
                    !.hcount[e.stream_id] = 1,
                    !.highest_inbound = e.stream_id]
    [] e.kind \in {"ResponseReceived", "TrailersReceived"} ->
         [es EXCEPT !.hcount[e.stream_id] = @ + 1]
    [] e.kind = "StreamReset" ->
         [es EXCEPT !.estate[e.stream_id] = "closed"]
    [] e.kind = "ConnectionTerminated" ->
         [es EXCEPT !.eclosed = TRUE]
    [] OTHER -> es

\* EventsProcessor.feed -> h2 receive_data(data): the event lists of at most
\* k events it can return
RECURSIVE feed(_, _)
feed(es, k) ==
  IF k = 0 THEN {<<>>}
  ELSE {<<>>} \cup
       UNION {{<<e>> \o rest : rest \in feed(EngineStep(es, e), k - 1)} :
                e \in ValidEvents(es)}

RECURSIVE EngineAfter(_, _)
EngineAfter(es, batch) ==
  IF batch = <<>> THEN es
  ELSE EngineAfter(EngineStep(es, Head(batch)), Tail(batch))

(* --------------------------- EventsProcessor --------------------------- *)
\* the state the processing of events reads and changes
ProcState ==
  [registered |-> registered, headers |-> headers, arrived |-> arrived,
   cancelled |-> cancelled, transport_closed |-> transport_closed,
   handler_closed |-> handler_closed, terminated |-> terminated,
   after_term |-> after_term, after_error |-> after_error,
   log |-> <<>>, raised |-> NoExc]

\* EventsProcessor.close: transport.close(), handler.close()
close_handler_only(st) == [st EXCEPT !.handler_closed = @ + 1]
close(st) ==
  [st EXCEPT !.transport_closed = @ + 1, !.handler_closed = @ + 1]

\* asyncio.Queue.put_nowait / the item Queue.get returns
put_front(q, item) == <<item>> \o q
put_nowait(q, item) == Append(q, item)

\* the processors table of EventsProcessor.__init__
processors ==
  [RequestReceived |-> "process_request_received",
   ResponseReceived |-> "process_response_received",
   RemoteSettingsChanged |-> "process_remote_settings_changed",
   SettingsAcknowledged |-> "process_settings_acknowledged",
   DataReceived |-> "process_data_received",
   WindowUpdated |-> "process_window_updated",
   TrailersReceived |-> "process_trailers_received",
   StreamEnded |-> "process_stream_ended",
   StreamReset |-> "process_stream_reset",
   PriorityUpdated |-> "process_priority_updated",
   ConnectionTerminated |-> "process_connection_terminated"]

\* process line 194: self.processors[event.__class__], or KeyError
LookupOrPass(kind) ==
  IF kind \in DOMAIN processors THEN processors[kind]
  ELSE "process_priority_updated"
Lookup(kind) ==
  IF kind \in DOMAIN processors THEN processors[kind] ELSE "KeyError"

\* a new Stream is stored under stream_id: conn.create_stream(stream_id) and
\* self.streams[stream_id] = stream
Register(st, stream_id) ==
  [st EXCEPT !.registered = Append(@, stream_id),
             !.headers[stream_id] = <<>>,
             !.arrived[stream_id] = <<>>]

\* NoHandler.accept raises NotImplementedError
process_request_received(st, event) ==
  LET st1 == Register(st, event.stream_id)
  IN IF handler = "NoHandler"
     THEN [st1 EXCEPT !.raised = [exc |-> "NotImplementedError",
                                  at |-> Len(st.log)]]
     ELSE st1

process_response_received(st, event) ==
  [st EXCEPT !.headers[event.stream_id] = put_nowait(@, "leading"),
             !.arrived[event.stream_id] = Append(@, "leading")]

process_trailers_received(st, event) ==
  [st EXCEPT !.headers[event.stream_id] = put_nowait(@, "trailing"),
             !.arrived[event.stream_id] = Append(@, "trailing")]

\* handler.cancel(stream): NoHandler.cancel does nothing; no handler holds
\* the application's tasks that wait on a stream made by create_stream
process_stream_reset(st, event) ==
  [st EXCEPT !.cancelled = @ \cup {event.stream_id}]

process_connection_terminated(st, event) ==
  [close(st) EXCEPT !.terminated = TRUE]

\* proc(event).  The routines for DataReceived, StreamEnded and WindowUpdated
\* act on the stream's buffer and window signal, which SpecRecv and SpecSend
\* follow; the routines for settings and priority events are `pass`.
proc(st, routine, event) ==
  CASE routine = "process_request_received" ->
         process_request_received(st, event)
    [] routine = "process_response_received" ->
         process_response_received(st, event)
    [] routine = "process_trailers_received" ->
         process_trailers_received(st, event)
    [] routine = "process_stream_reset" ->
         process_stream_reset(st, event)
    [] routine = "process_connection_terminated" ->
         process_connection_terminated(st, event)
    [] OTHER -> st

\* EventsProcessor.process
process(st, event) ==
  IF Lookup(event.kind) = "KeyError"
  THEN [st EXCEPT !.raised = [exc |-> "NotImplementedError",
                              at |-> Len(st.log) + 1]]
  ELSE LET routine == Lookup(event.kind)
           st1 == [st EXCEPT !.log = Append(@, [routine |-> routine,
                                                event |-> event]),
                             !.after_term = @ \/ st.terminated,
                             !.after_error = @ \/ errored]
       IN proc(st1, routine, event)

\* data_received lines 264-265: for event in events; an exception ends it
RECURSIVE ProcessEvents(_, _)
ProcessEvents(st, evs) ==
  IF evs = <<>> \/ st.raised # NoExc THEN st
  ELSE ProcessEvents(process(st, Head(evs)), Tail(evs))

(* ------------------------------ H2Protocol ----------------------------- *)
\* the step taken was not data_received
NoBatch == events' = <<>> /\ log' = <<>> /\ raised' = NoExc

\* H2Protocol.connection_made: initiate_connection(), conn.flush()
connection_made ==
  /\ ~made
  /\ made' = TRUE
  /\ flush
  /\ NoBatch
  /\ UNCHANGED <<lost, handler, client_side, registered, headers, hpc, got,
                 arrived, cancelled, transport_closed, handler_closed,
                 terminated, after_term, errored, after_error, estate,
                 hcount, highest_outbound, highest_inbound, eclosed>>
  /\ UNCHANGED <<recvVars, sendVars>>

\* H2Protocol.data_received, feed returning the events `batch`: flush, the
\* loop over the events, flush.  The transport delivers no data after
\* transport.close() or after connection_lost.
data_received ==
  /\ made /\ ~lost /\ transport_closed = 0
  /\ \E batch \in feed(EngineState, MaxBatch) :
     \E es \in {EngineAfter(EngineState, batch)},
        st \in {ProcessEvents(ProcState, batch)} :
        /\ estate' = es.estate
        /\ hcount' = es.hcount
        /\ highest_inbound' = es.highest_inbound
        /\ eclosed' = es.eclosed
        /\ registered' = st.registered
        /\ headers' = st.headers
        /\ arrived' = st.arrived
        /\ cancelled' = st.cancelled
        /\ transport_closed' = st.transport_closed
        /\ handler_closed' = st.handler_closed
        /\ terminated' = st.terminated
        /\ after_term' = st.after_term
        /\ after_error' = st.after_error
        /\ log' = st.log
        /\ raised' = st.raised
        /\ events' = batch
  /\ flush
  /\ UNCHANGED <<made, lost, handler, client_side, hpc, got, errored,
                 highest_outbound>>
  /\ UNCHANGED <<recvVars, sendVars>>

\* H2Protocol.data_received, feed raised ProtocolError: processor.close().
\* The engine may have queued a GOAWAY frame (q); nothing writes it.
data_received_error ==
  /\ made /\ ~lost /\ transport_closed = 0
  /\ errored' = TRUE
  /\ eclosed' = TRUE
  /\ LET st == close(ProcState)
     IN /\ transport_closed' = st.transport_closed
        /\ handler_closed' = st.handler_closed
  /\ \E q \in BOOLEAN : data_to_send' = (data_to_send \/ q)
  /\ NoBatch
  /\ UNCHANGED <<made, lost, handler, client_side, registered, headers, hpc,
                 got, arrived, cancelled, terminated, after_term,
                 after_error, estate, hcount, highest_outbound,
                 highest_inbound>>
  /\ UNCHANGED <<recvVars, sendVars>>

\* H2Protocol.connection_lost: processor.close()
connection_lost ==
  /\ made /\ ~lost
  /\ lost' = TRUE
  /\ LET st == close(ProcState)
     IN /\ transport_closed' = st.transport_closed
        /\ handler_closed' = st.handler_closed
  /\ NoBatch
  /\ UNCHANGED <<made, handler, client_side, registered, headers, hpc, got,
                 arrived, cancelled, terminated, after_term, errored,
                 after_error, estate, hcount, highest_outbound,
                 highest_inbound, eclosed, data_to_send>>
  /\ UNCHANGED <<recvVars, sendVars>>

\* EventsProcessor.create_stream (it has no await)
create_stream ==
  /\ made /\ ~lost /\ transport_closed = 0
  /\ get_next_available_stream_id <= MaxId
  /\ Len(SelectSeq(registered, IsLocal)) < MaxCreate
  /\ LET st == Register(ProcState, get_next_available_stream_id)
     IN /\ registered' = st.registered
        /\ headers' = st.headers
        /\ arrived' = st.arrived
  /\ NoBatch
  /\ UNCHANGED <<made, lost, handler, client_side, hpc, got, cancelled,
                 transport_closed, handler_closed, terminated, after_term,
                 errored, after_error, estate, hcount, highest_outbound,
                 highest_inbound, eclosed, data_to_send>>
  /\ UNCHANGED <<recvVars, sendVars>>

\* Stream.send_headers on a stream made by create_stream, write_ready being
\* set: h2 send_headers opens the stream in the engine, then transport.write.
\* The engine lets only a client open a stream by sending headers, and only
\* with an id above the highest it has opened.
open_stream(id) ==
  /\ made /\ ~lost /\ transport_closed = 0 /\ ~eclosed
  /\ client_side
  /\ write_ready
  /\ \E i \in DOMAIN registered : registered[i] = id
  /\ IsLocal(id)
  /\ estate[id] = "idle"
  /\ id > highest_outbound
  /\ estate' = [estate EXCEPT ![id] = "open"]
  /\ highest_outbound' = id
  /\ flush
  /\ NoBatch
  /\ UNCHANGED <<made, lost, handler, client_side, registered, headers, hpc,
                 got, arrived, cancelled, transport_closed, handler_closed,
                 terminated, after_term, errored, after_error, hcount,
                 highest_inbound, eclosed>>
  /\ UNCHANGED <<recvVars, sendVars>>

\* Stream.recv_headers, called by the application's task on a stream it has
\* created and opened: Queue.get returns the oldest item or suspends
recv_headers(s) ==
  /\ made /\ ~lost /\ transport_closed = 0
  /\ IsLocal(s)
  /\ estate[s] # "idle"
  /\ hpc[s] = "idle"
  /\ IF headers[s] # <<>>
     THEN /\ got' = [got EXCEPT ![s] = Append(@, Head(headers[s]))]
          /\ headers' = [headers EXCEPT ![s] = Tail(@)]
          /\ UNCHANGED hpc
     ELSE /\ hpc' = [hpc EXCEPT ![s] = "wait"]
          /\ UNCHANGED <<got, headers>>
  /\ NoBatch
  /\ UNCHANGED <<made, lost, handler, client_side, registered, arrived,
                 cancelled, transport_closed, handler_closed, terminated,
                 after_term, errored, after_error, estate, hcount,
                 highest_outbound, highest_inbound, eclosed, data_to_send>>
  /\ UNCHANGED <<recvVars, sendVars>>

\* the suspended recv_headers resumes: put_nowait has resolved its getter
recv_headers_resume(s) ==
  /\ hpc[s] = "wait"
  /\ headers[s] # <<>>
  /\ got' = [got EXCEPT ![s] = Append(@, Head(headers[s]))]
  /\ headers' = [headers EXCEPT ![s] = Tail(@)]
  /\ hpc' = [hpc EXCEPT ![s] = "idle"]
  /\ NoBatch
  /\ UNCHANGED <<made, lost, handler, client_side, registered, arrived,
                 cancelled, transport_closed, handler_closed, terminated,
                 after_term, errored, after_error, estate, hcount,
                 highest_outbound, highest_inbound, eclosed, data_to_send>>
  /\ UNCHANGED <<recvVars, sendVars>>

NextConn ==
  \/ connection_made
  \/ data_received
  \/ data_received_error
  \/ connection_lost
  \/ create_stream
  \/ \E id \in Ids : open_stream(id)
  \/ \E s \in Ids : recv_headers(s)
  \/ \E s \in Ids : recv_headers_resume(s)

SpecConn == InitOfConn /\ [][NextConn]_vars

Next == NextRecv \/ NextSend \/ NextConn

Spec == Init /\ [][Next]_vars

(* ===================== properties of the outbound side ================= *)
\* C1: the chunks a send_data call gives to the engine concatenate to the
\* data (to its prefix while the call runs), and end_stream is passed on the
\* last engine call only: never before the call completes, exactly once at
\* completion when end_stream=True, never when end_stream=False.
C1_ChunksAndEndStream ==
  \A s \in Streams :
    sop[s] = "send_data" =>
      /\ out[s] = Bytes(0, f_pos[s])
      /\ spc[s] # "done" => ends[s] = 0
      /\ spc[s] = "done" => /\ out[s] = Bytes(0, f_last[s])
                            /\ ends[s] = (IF end_stream[s] THEN 1 ELSE 0)

\* C1 witness: a send_data(data, end_stream=True) of MaxData bytes completed
\* in more than one chunk, the other stream not having sent anything.
C1_Witness ==
  \E s \in Streams :
    /\ sop[s] = "send_data" /\ spc[s] = "done" /\ end_stream[s]
    /\ f_last[s] = MaxData /\ ends[s] = 1
    /\ submitted.kind = "data" /\ submitted.n < MaxData
    /\ \A t \in Streams \ {s} : sop[t] = "none"

\* C2: no frame (headers or data) is submitted to the engine and written to
\* the transport while write_ready is clear.
C2_NoSubmitWhilePaused == submitted.ready

C4_SuspendedSendCompletes ==
  \A s \in Streams :
    (sop[s] = "send_data" /\ spc[s] = "window_wait" /\ f_pos[s] > 0)
      ~> (spc[s] = "done" /\ out[s] = Bytes(0, f_last[s]))

\* C4 witness: a call suspended after its first chunk, with bytes left, has
\* received the window update for its stream and is about to resume.
C4_Witness ==
  \E s \in Streams :
    /\ sop[s] = "send_data" /\ spc[s] = "window_wait"
    /\ f_pos[s] > 0 /\ f_pos[s] < f_last[s]
    /\ window_updated[s] /\ LocalWindow(s) > 0

\* C19: a send_data call suspended on flow control does not wait forever once
\* the engine's window for its stream is positive again, whichever window
\* update (stream-scoped or connection-scoped) made it positive.
C19_WindowWaitEnds ==
  \A s \in Streams :
    (spc[s] = "window_wait" /\ LocalWindow(s) > 0) ~> (spc[s] # "window_wait")

\* C20: every chunk send_data submits that does not exhaust the data is
\* non-empty, also when the window signal fired but the re-queried window is
\* still zero.
C20_NonFinalChunkNonEmpty ==
  (submitted.kind = "data" /\ submitted.n < submitted.remaining)
    => submitted.n > 0

(* ===================== properties of the inbound side ================== *)
Buffered == Join(_chunks)

\* C5: Buffer.read(k) with 0 < k <= buffered bytes returns at once exactly the
\* first k buffered bytes, whatever the chunking, and leaves the rest buffered
\* in order.
C5_ReadBufferedExact ==
  [][\A k \in 1..MaxRead :
       (recv_data_sized(k) /\ k <= Len(Buffered))
         => /\ rstat' = "returned"
            /\ ret' = SubSeq(Buffered, 1, k)
            /\ Join(_chunks') = SubSeq(Buffered, k + 1, Len(Buffered))]_vars

\* C6: Buffer.read(k) with k > buffered bytes suspends (unless end-of-input has
\* fired), and when it resumes it returns exactly k bytes if that many are
\* buffered, else everything buffered, end-of-input having fired; for every
\* read of a sequence.
C6_ReadSuspendsUntilEnough ==
  [][/\ \A k \in 1..MaxRead :
          (recv_data_sized(k) /\ k > Len(Buffered) /\ ~eofCalled)
            => rpc' = "wait_sized"
     /\ (recv_data_resume /\ rpc = "wait_sized")
            => /\ ret' = SubSeq(Buffered, 1, Min(rsize, Len(Buffered)))
               /\ (Len(ret') < rsize => eofCalled)]_vars

\* C7: once eof() has been called, no later read suspends: a call started
\* after eof() is never found waiting.
C7_EofStaysFired == eofAtCall => rpc = "idle"

\* C8: no received byte is delivered by two reads: what a read returns shares
\* no byte with what the reads before it returned (after b"hello" and the
\* stream end, the second recv_data() returns empty).
C8_NoByteDeliveredTwice ==
  rstat = "returned" => Range(ret) \cap delivered = {}

\* C9: on a buffer no sized read has consumed from, read() with no size
\* returns only after eof(), and returns the concatenation of all appended
\* chunks in call order.
C9_ReadAllIsConcatenation ==
  (rop = "all" /\ rstat = "returned" /\ ~sizedBefore)
    => (eofCalled /\ ret = Bytes(0, nApp))

\* C9 witness: a read() that suspended before eof has returned three or more
\* bytes that arrived in at least two chunks.
C9_Witness ==
  /\ rop = "all" /\ rstat = "returned" /\ ~sizedBefore /\ ~eofAtCall
  /\ Len(_chunks) >= 2 /\ Len(ret) >= 3

\* C10: a recv_data call that returned n bytes acknowledged exactly n bytes to
\* the engine for the stream's id.
C10_AckIsReturnedLength ==
  rstat = "returned" => acked = [n |-> Len(ret), stream_id |-> RecvStreamId]

\* C10 witness: a sized read ended early on end-of-input with fewer bytes than
\* requested, and that smaller count was acknowledged.
C10_Witness ==
  /\ rop = "sized" /\ rstat = "returned" /\ eofCalled
  /\ Len(ret) > 0 /\ Len(ret) < rsize
  /\ acked.n = Len(ret)

(* ===================== properties of the connection =================== *)
\* C11: when a StreamReset event is dispatched for a stream, handler.cancel is
\* invoked for it and a task suspended on the stream's recv_headers, with no
\* header block queued for it, does not stay suspended: it is cancelled.
\* Stated for a connection whose handler is the source's NoHandler.
C11_ResetCancelsWaiters ==
  [][\A s \in Ids :
       (/\ handler = "NoHandler"
        /\ \E i \in 1..Len(log') : log'[i].event = Event("StreamReset", s))
         => /\ s \in cancelled'
            /\ (hpc[s] = "wait" /\ headers'[s] = <<>>) => hpc'[s] # "wait"]_vars

\* C12: once a ConnectionTerminated event has been dispatched, the transport
\* and the handler have each been closed exactly once, for the rest of the
\* connection's life, and no event has been processed after it.
C12_ClosedOnceNothingAfter ==
  terminated =>
    (transport_closed = 1 /\ handler_closed = 1 /\ ~after_term)

\* C13: once the engine has reported a protocol violation, the transport and
\* the handler are closed, no event of that input was dispatched, and no
\* event of later input is dispatched.
C13_ProtocolErrorCloses ==
  errored =>
    (transport_closed >= 1 /\ handler_closed >= 1 /\ ~after_error
     /\ log = <<>>)

\* C13 witness: a protocol violation was reported on a connection with a
\* stream registered and a task waiting for its headers, and the connection
\* was lost afterwards.
C13_Witness ==
  /\ errored /\ lost
  /\ \E s \in Ids : hpc[s] = "wait"

\* C14: every Stream registered on the connection, by create_stream or by a
\* new-stream event, has an id no Stream registered before it has.
C14_StreamIdsNeverReused ==
  \A i, j \in DOMAIN registered : i # j => registered[i] # registered[j]

\* C15: the events of one feed call are processed in the order returned (all
\* of them unless one raises), and what recv_headers has returned followed by
\* what is still queued is the arrival order of the stream's header blocks,
\* leading headers never after trailing ones.
C15_EventsInOrderHeadersFifo ==
  /\ Len(log) <= Len(events)
  /\ \A i \in 1..Len(log) : log[i].event = events[i]
  /\ raised = NoExc => Len(log) = Len(events)
  /\ \A s \in Ids :
       /\ got[s] \o headers[s] = arrived[s]
       /\ \A i, j \in DOMAIN arrived[s] :
            (arrived[s][i] = "trailing" /\ arrived[s][j] = "leading") => j < i

\* C15 witness: a feed call returned two events, both processed; on some
\* stream recv_headers has returned the leading headers and the trailing
\* ones are queued.
C15_Witness ==
  /\ Len(log) = 2 /\ raised = NoExc
  /\ \E s \in Ids : got[s] = <<"leading">> /\ headers[s] = <<"trailing">>

\* C16: each event of the eleven registered kinds is routed to its one
\* routine, and an event of any other kind that process reaches raises
\* NotImplementedError there, no routine being called for it.
C16_UnregisteredKindRaises ==
  LET routines ==
        [RequestReceived |-> "process_request_received",
         ResponseReceived |-> "process_response_received",
         RemoteSettingsChanged |-> "process_remote_settings_changed",
         SettingsAcknowledged |-> "process_settings_acknowledged",
         DataReceived |-> "process_data_received",
         WindowUpdated |-> "process_window_updated",
         TrailersReceived |-> "process_trailers_received",
         StreamEnded |-> "process_stream_ended",
         StreamReset |-> "process_stream_reset",
         PriorityUpdated |-> "process_priority_updated",
         ConnectionTerminated |-> "process_connection_terminated"]
  IN /\ Cardinality(DOMAIN routines) = 11
     /\ \A i \in 1..Len(log) :
          /\ i <= Len(events)
          /\ events[i].kind \in DOMAIN routines
          /\ log[i].routine = routines[events[i].kind]
     /\ \A i \in 1..Len(events) :
          (/\ events[i].kind \notin DOMAIN routines
           /\ ~(raised # NoExc /\ raised.at < i))
            => /\ raised = [exc |-> "NotImplementedError", at |-> i]
               /\ Len(log) = i - 1

\* C16 witness: the second event of a batch is of an unregistered kind; the
\* first was routed, the second raised.
C16_Witness ==
  /\ Len(events) = 2 /\ events[2].kind = "PingAcknowledged"
  /\ Len(log) = 1
  /\ raised = [exc |-> "NotImplementedError", at |-> 2]

\* C17: no output the engine has queued stays unflushed when an operation of
\* this layer that mutates the engine has completed (feeding and processing
\* received bytes, recv_data's acknowledge_received_data).
C17_EngineOutputFlushed == ~data_to_send

\* C18: the Buffer's running total length equals the sum of the lengths of
\* the chunks it holds, after any sequence of append, eof and read.
C18_LengthIsSumOfChunks == _length = Len(Buffered)

====
